---- MODULE Spec2Model ----
(***************************************************************************)
(* Model of package notify (slack.go): a SlackClient shared by goroutines  *)
(* that call its send methods.  Each goroutine's position in a send is a   *)
(* program counter; the transport (retryablehttp Client.Do), the response  *)
(* body and the wall clock are the environment.                            *)
(*                                                                         *)
(* Strings that the code only copies are TLA+ strings.  Strings the code   *)
(* (or the library it calls) inspects character by character - the         *)
(* webhook URL and the decimal timestamp - are sequences of one-character  *)
(* strings.  Durations are in seconds, the clock is in ticks.              *)
(***************************************************************************)
EXTENDS Integers, Sequences, FiniteSets, TLC

(* ------------------------------ bounds -------------------------------- *)

\* Number of goroutines sharing the one client.
NumProcs == 2

\* Clock ticks per second (time.Now() is finer than Unix()'s seconds).
TicksPerSecond == 2

\* The clock advances at most this many ticks past its initial value.
MaxTicks == 2

Procs == 1 .. NumProcs

\* Initial readings of the wall clock, in ticks (Unix seconds 0 and 9, so a
\* run crosses from 9 to 10 seconds and the decimal rendering grows).
StartClocks == {0, 9 * TicksPerSecond + (TicksPerSecond - 1)}

(* --------------------------- program values --------------------------- *)

\* const DefaultSlackTimeout = 5 * time.Second, in seconds.
DefaultSlackTimeout == 5

\* The success marker the response body is compared against.
ok == "ok"

\* The error interface's nil, and the error values of each stage.
nil == "nil"
ErrInvalidNumber == "json: invalid number literal"
ErrMissingScheme == "parse: missing protocol scheme"
ErrControlChar == "parse: invalid control character in URL"
ErrUnexpectedEOF == "unexpected EOF"
ErrBodyClose == "close: connection reset"
TransportErrs == {"dial tcp: connection refused", "giving up after retries"}

\* funcName's default icon (written without its closing colon in the code).
DefaultEmoji == ":hammer_and_wrench"

\* A request built by NewRequest carries no deadline.
NoDeadline == 0

(* ------------------------ strconv / encoding/json --------------------- *)

Digits == <<"0", "1", "2", "3", "4", "5", "6", "7", "8", "9">>

RECURSIVE FormatNat(_)
FormatNat(n) ==
    IF n < 10 THEN <<Digits[n + 1]>>
    ELSE FormatNat(n \div 10) \o <<Digits[(n % 10) + 1]>>

\* strconv.FormatInt(i, 10): the decimal digits of i, "-" first when negative.
FormatInt(i) == IF i < 0 THEN <<"-">> \o FormatNat(-i) ELSE FormatNat(i)

DigitValue(c) == CHOOSE d \in 0 .. 9 : Digits[d + 1] = c

IsDigit(c) == \E d \in 0 .. 9 : Digits[d + 1] = c

RECURSIVE ParseNat(_)
ParseNat(s) ==
    IF s = <<>> THEN 0
    ELSE 10 * ParseNat(SubSeq(s, 1, Len(s) - 1)) + DigitValue(s[Len(s)])

\* json.Number.Int64 (strconv.ParseInt) on a valid integer literal.
ParseInt(s) ==
    IF s # <<>> /\ s[1] = "-" THEN -ParseNat(Tail(s)) ELSE ParseNat(s)

\* encoding/json isValidNumber, on integer literals (the alphabet of the
\* model has no ".", "e" or "E").
isValidNumber(s) ==
    LET u == IF s # <<>> /\ s[1] = "-" THEN Tail(s) ELSE s
    IN /\ u # <<>>
       /\ \A i \in 1 .. Len(u) : IsDigit(u[i])
       /\ (u[1] = "0" => Len(u) = 1)

\* time.Time.Unix(): whole seconds, truncating the sub-second part.
Unix(t) == t \div TicksPerSecond

(* ------------------------------- net/url ------------------------------ *)

\* A URL is a sequence of bytes (0 .. 255), as Go indexes a string.  The
\* printable ASCII characters, in code order from 0x20 (space) to 0x7e (~);
\* 0x60, the grave accent, has no string literal and is written "GRAVE".
Printable ==
    <<" ", "!", "\"", "#", "$", "%", "&", "'", "(", ")", "*", "+", ",", "-",
      ".", "/", "0", "1", "2", "3", "4", "5", "6", "7", "8", "9", ":", ";",
      "<", "=", ">", "?", "@", "A", "B", "C", "D", "E", "F", "G", "H", "I",
      "J", "K", "L", "M", "N", "O", "P", "Q", "R", "S", "T", "U", "V", "W",
      "X", "Y", "Z", "[", "\\", "]", "^", "_", "GRAVE", "a", "b", "c", "d", "e",
      "f", "g", "h", "i", "j", "k", "l", "m", "n", "o", "p", "q", "r", "s",
      "t", "u", "v", "w", "x", "y", "z", "{", "|", "}", "~">>

\* The byte of a printable character, and the bytes of a printable string
\* given as a sequence of characters.
OrdTable ==
    [c \in {Printable[i] : i \in 1 .. Len(Printable)} |->
        31 + (CHOOSE i \in 1 .. Len(Printable) : Printable[i] = c)]
Ord(c) == OrdTable[c]
Bytes(s) == [i \in 1 .. Len(s) |-> Ord(s[i])]
OrdSet(cs) == {Ord(c) : c \in cs}

\* 'a'..'z' and 'A'..'Z'.
Letters == (Ord("a") .. Ord("z")) \cup (Ord("A") .. Ord("Z"))

\* '0'..'9'.
DigitBytes == Ord("0") .. Ord("9")

\* stringContainsCTLByte: b < ' ' || b == 0x7f.
CTLBytes == {b \in 0 .. 255 : b < Ord(" ") \/ b = Ord("~") + 1}

\* Position of the first byte of s that is in set cs, 0 when none.
IndexAny(s, cs) ==
    IF \E i \in 1 .. Len(s) : s[i] \in cs
    THEN CHOOSE i \in 1 .. Len(s) :
             s[i] \in cs /\ \A j \in 1 .. (i - 1) : s[j] \notin cs
    ELSE 0

\* Position of the last byte of s that is in set cs, 0 when none.
LastIndexAny(s, cs) ==
    IF \E i \in 1 .. Len(s) : s[i] \in cs
    THEN CHOOSE i \in 1 .. Len(s) :
             s[i] \in cs /\ \A j \in (i + 1) .. Len(s) : s[j] \notin cs
    ELSE 0

\* strings.Cut(s, sep) for a one-byte separator: the parts before and after
\* its first occurrence; all of s and nothing when it does not occur.
Before(s, c) ==
    IF IndexAny(s, {c}) = 0 THEN s ELSE SubSeq(s, 1, IndexAny(s, {c}) - 1)
After(s, c) ==
    IF IndexAny(s, {c}) = 0 THEN <<>>
    ELSE SubSeq(s, IndexAny(s, {c}) + 1, Len(s))

\* strings.HasPrefix.
HasPrefix(s, pre) == Len(s) >= Len(pre) /\ SubSeq(s, 1, Len(pre)) = pre

\* net/url getScheme: scan to the first character that is not a letter.  A
\* ":" there ends the scheme (an error when it is the first character); a
\* digit, "+", "-" or "." continues the scheme unless it is the first
\* character; anything else means there is no scheme.
RECURSIVE getScheme(_, _)
getScheme(rawURL, i) ==
    IF i > Len(rawURL) THEN [err |-> nil, scheme |-> <<>>, rest |-> rawURL]
    ELSE LET c == rawURL[i]
         IN IF c \in Letters THEN getScheme(rawURL, i + 1)
            ELSE IF c \in DigitBytes \/ c \in OrdSet({"+", "-", "."})
            THEN IF i = 1
                 THEN [err |-> nil, scheme |-> <<>>, rest |-> rawURL]
                 ELSE getScheme(rawURL, i + 1)
            ELSE IF c = Ord(":")
            THEN IF i = 1
                 THEN [err |-> ErrMissingScheme, scheme |-> <<>>, rest |-> <<>>]
                 ELSE [err |-> nil,
                       scheme |-> SubSeq(rawURL, 1, i - 1),
                       rest |-> SubSeq(rawURL, i + 1, Len(rawURL))]
            ELSE [err |-> nil, scheme |-> <<>>, rest |-> rawURL]

ErrFirstSegmentColon == "parse: first path segment in URL cannot contain colon"
ErrEscape == "parse: invalid URL escape"
ErrInvalidHost == "parse: invalid character in host name"
ErrMissingBracket == "parse: missing ']' in host"
ErrInvalidPort == "parse: invalid port after host"
ErrInvalidUserinfo == "parse: net/url: invalid userinfo"

\* ishex and unhex.
ishex(c) ==
    \/ c \in DigitBytes
    \/ c \in Ord("a") .. Ord("f")
    \/ c \in Ord("A") .. Ord("F")
unhex(c) ==
    IF c \in DigitBytes THEN c - Ord("0")
    ELSE IF c \in Ord("a") .. Ord("f") THEN c - Ord("a") + 10
    ELSE IF c \in Ord("A") .. Ord("F") THEN c - Ord("A") + 10
    ELSE 0

\* shouldEscape(c, encodeHost) (the same for encodeZone): letters, digits,
\* the sub-delimiters and brackets the host may hold, and "-_.~" need no
\* escape; everything else does.
shouldEscapeHost(c) ==
    ~ \/ c \in Letters
      \/ c \in DigitBytes
      \/ c \in OrdSet({"!", "$", "&", "'", "(", ")", "*", "+", ",", ";", "=",
                       ":", "[", "]", "<", ">", "\""})
      \/ c \in OrdSet({"-", "_", ".", "~"})

PercentTwentyFive == Bytes(<<"%", "2", "5">>)

\* unescape(s, mode), its error only.  A "%" must be followed by two hex
\* digits; in a host an escape below 0x80 other than "%25" is an error; in
\* a zone an escape of a byte that a host would have to escape (other than
\* "%25" and space) is an error; in a host or zone a raw ASCII byte that
\* must be escaped is an error.  mode is "host", "zone" or any other mode.
RECURSIVE unescape(_, _, _)
unescape(s, mode, i) ==
    IF i > Len(s) THEN nil
    ELSE IF s[i] = Ord("%")
    THEN IF i + 2 > Len(s) \/ ~ishex(s[i + 1]) \/ ~ishex(s[i + 2])
         THEN ErrEscape
         ELSE IF /\ mode = "host"
                 /\ unhex(s[i + 1]) < 8
                 /\ SubSeq(s, i, i + 2) # PercentTwentyFive
         THEN ErrEscape
         ELSE IF /\ mode = "zone"
                 /\ SubSeq(s, i, i + 2) # PercentTwentyFive
                 /\ unhex(s[i + 1]) * 16 + unhex(s[i + 2]) # Ord(" ")
                 /\ shouldEscapeHost(unhex(s[i + 1]) * 16 + unhex(s[i + 2]))
         THEN ErrEscape
         ELSE unescape(s, mode, i + 3)
    ELSE IF /\ mode \in {"host", "zone"}
            /\ s[i] < 128
            /\ s[i] # Ord("+")
            /\ shouldEscapeHost(s[i])
    THEN ErrInvalidHost
    ELSE unescape(s, mode, i + 1)

\* validOptionalPort: empty, or ":" followed by digits only.
validOptionalPort(port) ==
    \/ port = <<>>
    \/ /\ port[1] = Ord(":")
       /\ \A i \in 2 .. Len(port) : port[i] \in DigitBytes

\* The first non-nil error of a sequence of errors, nil when there is none.
FirstErr(errs) ==
    IF \E i \in 1 .. Len(errs) : errs[i] # nil
    THEN errs[CHOOSE i \in 1 .. Len(errs) :
                  errs[i] # nil /\ \A j \in 1 .. (i - 1) : errs[j] = nil]
    ELSE nil

\* Position of the first "%25" in s, 0 when none.
IndexZone(s) ==
    IF \E i \in 1 .. (Len(s) - 2) : SubSeq(s, i, i + 2) = PercentTwentyFive
    THEN CHOOSE i \in 1 .. (Len(s) - 2) :
             /\ SubSeq(s, i, i + 2) = PercentTwentyFive
             /\ \A j \in 1 .. (i - 1) : SubSeq(s, j, j + 2) # PercentTwentyFive
    ELSE 0

\* parseHost on a bracketed literal whose last "]" is at i and whose first
\* "%25" before it is at zone (0 when none): with a zone the literal is
\* unescaped in three parts, the middle one as a zone.
parseHostZone(host, i, zone) ==
    IF zone > 0
    THEN FirstErr(<<unescape(SubSeq(host, 1, zone - 1), "host", 1),
                    unescape(SubSeq(host, zone, i - 1), "zone", 1),
                    unescape(SubSeq(host, i, Len(host)), "host", 1)>>)
    ELSE unescape(host, "host", 1)

\* parseHost on a bracketed literal whose last "]" is at i (0 when none): it
\* needs the "]" and a valid optional port after it.
parseHostBracket(host, i) ==
    IF i = 0 THEN ErrMissingBracket
    ELSE IF ~validOptionalPort(SubSeq(host, i + 1, Len(host)))
    THEN ErrInvalidPort
    ELSE parseHostZone(host, i, IndexZone(SubSeq(host, 1, i - 1)))

\* parseHost on any other host, whose last ":" is at i (0 when none): what
\* follows from there must be a valid port; then the host is unescaped.
parseHostPlain(host, i) ==
    IF i > 0 /\ ~validOptionalPort(SubSeq(host, i, Len(host)))
    THEN ErrInvalidPort
    ELSE unescape(host, "host", 1)

\* parseHost, its error only.
parseHost(host) ==
    IF host # <<>> /\ host[1] = Ord("[")
    THEN parseHostBracket(host, LastIndexAny(host, {Ord("]")}))
    ELSE parseHostPlain(host, LastIndexAny(host, {Ord(":")}))

\* validUserinfo: letters, digits and "-._:~!$&'()*+,;=%@" only.
validUserinfo(s) ==
    \A i \in 1 .. Len(s) :
        \/ s[i] \in Letters
        \/ s[i] \in DigitBytes
        \/ s[i] \in OrdSet({"-", ".", "_", ":", "~", "!", "$", "&", "'", "(",
                            ")", "*", "+", ",", ";", "=", "%", "@"})

\* parseAuthority with userinfo: the host first, then the userinfo's
\* characters, then the escapes of the user name and of the password.
parseUserHost(userinfo, host) ==
    FirstErr(<<parseHost(host),
               IF validUserinfo(userinfo) THEN nil ELSE ErrInvalidUserinfo,
               unescape(Before(userinfo, Ord(":")), "user", 1),
               unescape(After(userinfo, Ord(":")), "user", 1)>>)

\* parseAuthority, its error only, the last "@" being at i (0 when none).
parseAuthorityAt(authority, i) ==
    IF i = 0 THEN parseHost(authority)
    ELSE parseUserHost(SubSeq(authority, 1, i - 1),
                       SubSeq(authority, i + 1, Len(authority)))

parseAuthority(authority) ==
    parseAuthorityAt(authority, LastIndexAny(authority, {Ord("@")}))

\* What follows "//", its first "/" being at slash (0 when none): the
\* authority up to there, the path from there on.
parseAuthorityPath(s, slash) ==
    IF slash = 0 THEN parseAuthority(s)
    ELSE FirstErr(<<parseAuthority(SubSeq(s, 1, slash - 1)),
                    unescape(SubSeq(s, slash, Len(s)), "path", 1)>>)

\* parse after the scheme and with the query cut off: a rootless rest is
\* opaque under a scheme and must not have a colon in its first segment
\* without one; an authority follows "//" (not "///" without a scheme);
\* otherwise the rest is the path.
parseRest(scheme, rest) ==
    IF ~HasPrefix(rest, <<Ord("/")>>) /\ scheme # <<>> THEN nil
    ELSE IF /\ ~HasPrefix(rest, <<Ord("/")>>)
            /\ \E i \in 1 .. Len(Before(rest, Ord("/"))) : rest[i] = Ord(":")
    THEN ErrFirstSegmentColon
    ELSE IF /\ scheme # <<>> \/ ~HasPrefix(rest, Bytes(<<"/", "/", "/">>))
            /\ HasPrefix(rest, Bytes(<<"/", "/">>))
    THEN parseAuthorityPath(SubSeq(rest, 3, Len(rest)),
                            IndexAny(SubSeq(rest, 3, Len(rest)), {Ord("/")}))
    ELSE unescape(rest, "path", 1)

\* parse after getScheme: its error, else the rest up to the first "?".
parseScheme(g) ==
    IF g.err # nil THEN g.err
    ELSE parseRest(g.scheme, Before(g.rest, Ord("?")))

\* net/url parse(rawURL, false), its error only: control bytes, "*", then
\* the scheme and what follows it.
parse(rawURL) ==
    IF \E i \in 1 .. Len(rawURL) : rawURL[i] \in CTLBytes
    THEN ErrControlChar
    ELSE IF rawURL = <<Ord("*")>> THEN nil
    ELSE parseScheme(getScheme(rawURL, 1))

\* net/url Parse, its error only (nil on success): the fragment is cut off
\* at the first "#", the rest is parsed, then the fragment's escapes are
\* checked.
urlParse(rawURL) ==
    FirstErr(<<parse(Before(rawURL, Ord("#"))),
               unescape(After(rawURL, Ord("#")), "fragment", 1)>>)

(* ------------------------------ messages ------------------------------ *)

\* The zero values of the structs (Go's zero-initialised locals).
ZeroSimple == [Text |-> "", IconEmoji |-> ""]
ZeroJob == [Color |-> "", IconEmoji |-> "", Details |-> "", Text |-> ""]
ZeroMessage ==
    [Username |-> "", IconEmoji |-> "", Channel |-> "", Text |-> "",
     Attachments |-> <<>>]
ZeroRequest ==
    [built |-> FALSE, method |-> "", url |-> <<>>, body |-> <<>>,
     header |-> <<>>, deadline |-> NoDeadline]
ZeroResponse == [present |-> FALSE, body |-> ""]

\* SendSlackNotification's message literal.
SimpleMessage(c, sr) ==
    [Username |-> c.UserName, IconEmoji |-> sr.IconEmoji,
     Channel |-> c.Channel, Text |-> sr.Text, Attachments |-> <<>>]

\* Fault variant of Stamp: the full-resolution reading instead of seconds.
StampUnixNano(now) == FormatInt(now)

\* The attachment's TS: json.Number(strconv.FormatInt(time.Now().Unix(), 10)).
Stamp(now) == FormatInt(Unix(now))

\* Fault variant of JobAttachment: the summary in place of the details.
JobAttachmentSwapped(job, now) ==
    [Color |-> job.Color, Text |-> job.Text, TS |-> Stamp(now)]

\* SendJobNotification's attachment literal; the other fields of Attachment
\* are never assigned and stay at their zero values.
JobAttachment(job, now) ==
    [Color |-> job.Color, Text |-> job.Details, TS |-> Stamp(now)]

\* SendJobNotification's message literal.
JobMessage(c, job, now) ==
    [Username |-> c.UserName, IconEmoji |-> job.IconEmoji,
     Channel |-> c.Channel, Text |-> job.Text,
     Attachments |-> <<JobAttachment(job, now)>>]

\* Fault variant of funcName: the last option instead of the first.
funcNameLastOption(color, message, options) ==
    [Color |-> color,
     IconEmoji |-> IF Len(options) > 0 THEN options[Len(options)]
                   ELSE DefaultEmoji,
     Details |-> message, Text |-> ""]

\* funcName: the icon is the first option, the default when there is none.
funcName(color, message, options) ==
    [Color |-> color,
     IconEmoji |-> IF Len(options) > 0 THEN options[1] ELSE DefaultEmoji,
     Details |-> message, Text |-> ""]

\* The color each severity wrapper passes to funcName.
SeverityColor(method) ==
    CASE method = "SendError" -> "danger"
      [] method = "SendInfo" -> "good"
      [] method = "SendWarning" -> "warning"

\* omitempty on string fields: drop the pairs whose value is empty.
OmitEmpty(pairs) == SelectSeq(pairs, LAMBDA kv : kv[2] # "")

MarshalAttachment(a) ==
    OmitEmpty(<<<<"color", a.Color>>, <<"text", a.Text>>>>)
        \o (IF a.TS = <<>> THEN <<>> ELSE <<<<"ts", a.TS>>>>)

\* json.Marshal(slackRequest): the non-empty fields in declaration order;
\* fails on an attachment whose non-empty TS is not a number literal.
Marshal(m) ==
    IF \E i \in 1 .. Len(m.Attachments) :
           m.Attachments[i].TS # <<>> /\ ~isValidNumber(m.Attachments[i].TS)
    THEN [err |-> ErrInvalidNumber, body |-> <<>>]
    ELSE [err |-> nil,
          body |->
              OmitEmpty(<<<<"username", m.Username>>,
                          <<"icon_emoji", m.IconEmoji>>,
                          <<"channel", m.Channel>>,
                          <<"text", m.Text>>>>)
                  \o (IF m.Attachments = <<>> THEN <<>>
                      ELSE <<<<"attachments",
                               [i \in 1 .. Len(m.Attachments) |->
                                   MarshalAttachment(m.Attachments[i])]>>>>)]

\* retryablehttp.NewRequest(http.MethodPost, sc.WebHookURL, body) followed by
\* req.Header.Add("Content-Type", "application/json").
NewRequest(url, body) ==
    LET err == urlParse(url)
    IN IF err # nil THEN [err |-> err, req |-> ZeroRequest]
       ELSE [err |-> nil,
             req |-> [built |-> TRUE, method |-> "POST", url |-> url,
                      body |-> body,
                      header |-> <<<<"Content-Type", "application/json">>>>,
                      deadline |-> NoDeadline]]

\* Fault variant of BodyCheck: an explicit error on the matching branch.
BodyCheckMisplaced(buf, err) ==
    IF buf # ok THEN err ELSE "slack: unexpected response"

\* The tail of sendHTTPRequest: a body other than the marker returns err, the
\* variable last assigned by ReadAll.
BodyCheck(buf, err) == IF buf # ok THEN err ELSE nil

(* ------------------------------- state -------------------------------- *)

VARIABLES
    sc,             \* the shared SlackClient: WebHookURL, UserName, Channel, TimeOut
    clock,          \* the wall clock time.Now() reads, in ticks
    g,              \* per goroutine: its position and the locals of its call
    timeoutWrites   \* history: number of assignments to sc.TimeOut so far

vars == <<sc, clock, g, timeoutWrites>>

\* A goroutine that is not inside a send.  method, sr, job, message and
\* options are the call's arguments; slackRequest, req, resp, buf and err are
\* sendHTTPRequest's locals; the rest is history of the call: when the job
\* value was built, when the call began and returned, how many requests were
\* handed to Do, what Do returned and under which deadline it ran, whether
\* ReadAll was called and what it returned, whether the body was closed and
\* what Close returned.
Idle ==
    [pc |-> "idle", method |-> "", sr |-> ZeroSimple, job |-> ZeroJob,
     message |-> "", options |-> <<>>,
     slackRequest |-> ZeroMessage, req |-> ZeroRequest,
     resp |-> ZeroResponse, buf |-> "", err |-> nil,
     jobBuiltAt |-> 0, callClock |-> 0, retClock |-> 0,
     sent |-> 0, doErr |-> nil, doDeadline |-> NoDeadline,
     bodyRead |-> FALSE, readErr |-> nil,
     closed |-> FALSE, closeErr |-> nil]

(* ------------------------------- inputs ------------------------------- *)

\* Webhook URLs.  Four that url.Parse accepts: a plain one, the empty
\* string, one with an upper-case scheme, userinfo, port, query and
\* fragment, and a relative one whose colon is in the query.  Ten that it
\* rejects: missing scheme, line feed, form feed, colon in the first segment,
\* bad port, bad escape in the host, unclosed bracket, space in the host, bad
\* escape in the path, bad userinfo.
GoodURLs ==
    {Bytes(<<"h", ":", "/", "/", "s">>),
     <<>>,
     Bytes(<<"H", ":", "/", "/", "u", "@", "s", ":", "8", "0", "/", "p", "?",
             "b", ":", "c", "#", "d", ":", "e">>),
     Bytes(<<"a", "?", "b", ":", "c">>)}
BadURLs ==
    {Bytes(<<":", "/", "s">>),
     Bytes(<<"h">>) \o <<10>>,
     Bytes(<<"h">>) \o <<12>>,
     Bytes(<<"1", ":", "s">>),
     Bytes(<<"h", ":", "/", "/", "s", ":", "x">>),
     Bytes(<<"h", ":", "/", "/", "%", "z", "z">>),
     Bytes(<<"h", ":", "/", "/", "[", ":", ":", "1">>),
     Bytes(<<"h", ":", "/", "/", "a", " ", "b">>),
     Bytes(<<"/", "%", "z">>),
     Bytes(<<"h", ":", "/", "/", "u", "^", "@", "s">>)}
URLs == GoodURLs \cup BadURLs
UserNames == {"", "bot"}
Channels == {"", "#ops"}
TimeOuts == {0, DefaultSlackTimeout, DefaultSlackTimeout + 25}

Texts == {"", "disk full"}
Emojis == {"", ":bell:"}
Colors == {"", "#36a64f"}
OptionLists == {<<>>, <<":bell:">>, <<":bell:", ":x:">>, <<"", ":x:">>}
SeverityMethods == {"SendError", "SendInfo", "SendWarning"}
SimpleRequests == [Text : Texts, IconEmoji : Emojis]
Jobs == [Color : Colors, IconEmoji : Emojis, Details : Texts, Text : Texts]

\* Response bodies the webhook may answer with.
Bodies == {ok, "invalid_payload", ""}

\* What Client.Do returns: an error and no response, or a response.
DoResults ==
    [err : TransportErrs, body : {""}] \cup [err : {nil}, body : Bodies]

Init ==
    /\ sc \in [WebHookURL : URLs, UserName : UserNames, Channel : Channels,
               TimeOut : TimeOuts]
    /\ clock \in StartClocks
    /\ g = [p \in Procs |-> Idle]
    /\ timeoutWrites = 0

(* ------------------------------ actions ------------------------------- *)

\* The caller builds a SlackJobNotification value, to be sent later.
NewJob(p, job) ==
    /\ g[p].pc = "idle"
    /\ g' = [g EXCEPT ![p] = [@ EXCEPT !.pc = "built", !.job = job,
                                        !.jobBuiltAt = clock]]
    /\ UNCHANGED <<sc, clock, timeoutWrites>>

\* SendSlackNotification, up to its call of sendHTTPRequest.
SendSlackNotification(p, sr) ==
    /\ g[p].pc = "idle"
    /\ g' = [g EXCEPT ![p] =
                [@ EXCEPT !.pc = "send", !.method = "SendSlackNotification",
                          !.sr = sr, !.callClock = clock,
                          !.slackRequest = SimpleMessage(sc, sr)]]
    /\ UNCHANGED <<sc, clock, timeoutWrites>>

\* The caller enters SendJobNotification with the job it built.
CallSendJobNotification(p) ==
    /\ g[p].pc = "built"
    /\ g' = [g EXCEPT ![p] = [@ EXCEPT !.pc = "job",
                                        !.method = "SendJobNotification",
                                        !.callClock = clock]]
    /\ UNCHANGED <<sc, clock, timeoutWrites>>

\* SendError, SendInfo, SendWarning: funcName builds the job and calls
\* SendJobNotification.
SendSeverity(p, method, message, options) ==
    /\ g[p].pc = "idle"
    /\ g' = [g EXCEPT ![p] =
                [@ EXCEPT !.pc = "job", !.method = method,
                          !.message = message, !.options = options,
                          !.job = funcName(SeverityColor(method), message,
                                           options),
                          !.jobBuiltAt = clock, !.callClock = clock]]
    /\ UNCHANGED <<sc, clock, timeoutWrites>>

\* SendJobNotification's body: read the clock, build the message.
SendJobNotification(p) ==
    /\ g[p].pc = "job"
    /\ g' = [g EXCEPT ![p] =
                [@ EXCEPT !.pc = "send",
                          !.slackRequest = JobMessage(sc, g[p].job, clock)]]
    /\ UNCHANGED <<sc, clock, timeoutWrites>>

\* A goroutine returns err from its send.
Return(s, err) ==
    [s EXCEPT !.pc = "done", !.err = err, !.retClock = clock]

\* sendHTTPRequest, lines 131-139: marshal, build the request, set the header.
sendHTTPRequest(p) ==
    /\ g[p].pc = "send"
    /\ LET m == Marshal(g[p].slackRequest)
           r == NewRequest(sc.WebHookURL, m.body)
       IN g' = [g EXCEPT ![p] =
                   IF m.err # nil THEN Return(@, m.err)
                   ELSE IF r.err # nil THEN Return(@, r.err)
                   ELSE [@ EXCEPT !.pc = "timeout", !.req = r.req]]
    /\ UNCHANGED <<sc, clock, timeoutWrites>>

\* Line 140: the read of sc.TimeOut.
CheckTimeOut(p) ==
    /\ g[p].pc = "timeout"
    /\ g' = [g EXCEPT ![p] =
                [@ EXCEPT !.pc = IF sc.TimeOut = 0 THEN "default" ELSE "do"]]
    /\ UNCHANGED <<sc, clock, timeoutWrites>>

\* Line 141: the write of sc.TimeOut.
SetTimeOut(p) ==
    /\ g[p].pc = "default"
    /\ sc' = [sc EXCEPT !.TimeOut = DefaultSlackTimeout]
    /\ timeoutWrites' = timeoutWrites + 1
    /\ g' = [g EXCEPT ![p] = [@ EXCEPT !.pc = "do"]]
    /\ UNCHANGED clock

\* Fault variant of Do: a failed submission is submitted again.
DoRetrying(p, r) ==
    /\ g[p].pc = "do"
    /\ g[p].sent < 3
    /\ g' = [g EXCEPT ![p] =
                IF r.err # nil
                THEN [@ EXCEPT !.sent = @ + 1, !.doErr = r.err]
                ELSE [@ EXCEPT !.pc = "read", !.sent = @ + 1,
                               !.doDeadline = g[p].req.deadline,
                               !.resp = [present |-> TRUE, body |-> r.body]]]
    /\ UNCHANGED <<sc, clock, timeoutWrites>>

\* Fault variant of Do: the transport error is dropped and the send goes on
\* to read the response.
DoSwallowing(p, r) ==
    /\ g[p].pc = "do"
    /\ g' = [g EXCEPT ![p] =
                [@ EXCEPT !.pc = "read", !.sent = @ + 1, !.doErr = r.err,
                          !.doDeadline = g[p].req.deadline,
                          !.resp = [present |-> TRUE, body |-> r.body]]]
    /\ UNCHANGED <<sc, clock, timeoutWrites>>

\* Lines 144-147: submit the request; a transport error is returned as is.
Do(p, r) ==
    /\ g[p].pc = "do"
    /\ g' = [g EXCEPT ![p] =
                IF r.err # nil
                THEN Return([@ EXCEPT !.sent = @ + 1, !.doErr = r.err,
                                      !.doDeadline = g[p].req.deadline], r.err)
                ELSE [@ EXCEPT !.pc = "read", !.sent = @ + 1,
                               !.doDeadline = g[p].req.deadline,
                               !.resp = [present |-> TRUE, body |-> r.body]]]
    /\ UNCHANGED <<sc, clock, timeoutWrites>>

\* Lines 149-160: ReadAll; on a read error return it (the deferred Close is
\* not yet registered); otherwise register the Close, compare the body with
\* the marker and return, the deferred Close running on the way out with its
\* result dropped.
ReadBody(p, readErr, closeErr) ==
    /\ g[p].pc = "read"
    /\ g' = [g EXCEPT ![p] =
                IF readErr # nil
                THEN Return([@ EXCEPT !.bodyRead = TRUE,
                                      !.readErr = readErr], readErr)
                ELSE Return([@ EXCEPT !.bodyRead = TRUE,
                                      !.buf = g[p].resp.body,
                                      !.closed = TRUE,
                                      !.closeErr = closeErr],
                            BodyCheck(g[p].resp.body, readErr))]
    /\ UNCHANGED <<sc, clock, timeoutWrites>>

\* The caller takes the result; the call's locals are gone.
Done(p) ==
    /\ g[p].pc = "done"
    /\ g' = [g EXCEPT ![p] = Idle]
    /\ UNCHANGED <<sc, clock, timeoutWrites>>

\* The wall clock advances.
Tick ==
    /\ \E c0 \in StartClocks : c0 <= clock /\ clock < c0 + MaxTicks
    /\ clock' = clock + 1
    /\ UNCHANGED <<sc, g, timeoutWrites>>

(* --------------------------- specifications --------------------------- *)

\* One goroutine sends, one call after another, with every argument.
Next ==
    \/ \E job \in Jobs : NewJob(1, job)
    \/ \E sr \in SimpleRequests : SendSlackNotification(1, sr)
    \/ CallSendJobNotification(1)
    \/ \E method \in SeverityMethods, message \in Texts,
          options \in OptionLists :
           SendSeverity(1, method, message, options)
    \/ SendJobNotification(1)
    \/ sendHTTPRequest(1)
    \/ CheckTimeOut(1)
    \/ SetTimeOut(1)
    \/ \E r \in DoResults : Do(1, r)
    \/ \E readErr \in {nil, ErrUnexpectedEOF},
          closeErr \in {nil, ErrBodyClose} : ReadBody(1, readErr, closeErr)
    \/ Done(1)
    \/ Tick

Spec == Init /\ [][Next]_vars

\* Several goroutines send through the one client at once, each with one
\* argument per method, on a client configured with a well-formed or a
\* malformed URL; the transport fails, acknowledges or answers otherwise.
ConcJob ==
    [Color |-> "#36a64f", IconEmoji |-> ":bell:", Details |-> "disk full",
     Text |-> "backup"]
ConcSimple == [Text |-> "disk full", IconEmoji |-> ":bell:"]

ConcDoResults ==
    {[err |-> "giving up after retries", body |-> ""],
     [err |-> nil, body |-> ok], [err |-> nil, body |-> "invalid_payload"]}

InitConc ==
    /\ sc \in [WebHookURL : {Bytes(<<"h", ":", "/", "/", "s">>),
                             Bytes(<<":", "/", "s">>)},
               UserName : {"bot"}, Channel : {"#ops"}, TimeOut : TimeOuts]
    /\ clock = 0
    /\ g = [p \in Procs |-> Idle]
    /\ timeoutWrites = 0

NextConc ==
    \/ \E p \in Procs : NewJob(p, ConcJob)
    \/ \E p \in Procs : SendSlackNotification(p, ConcSimple)
    \/ \E p \in Procs : CallSendJobNotification(p)
    \/ \E p \in Procs, method \in SeverityMethods :
           SendSeverity(p, method, "disk full", <<":bell:">>)
    \/ \E p \in Procs : SendJobNotification(p)
    \/ \E p \in Procs : sendHTTPRequest(p)
    \/ \E p \in Procs : CheckTimeOut(p)
    \/ \E p \in Procs : SetTimeOut(p)
    \/ \E p \in Procs, r \in ConcDoResults : Do(p, r)
    \/ \E p \in Procs, readErr \in {nil, ErrUnexpectedEOF} :
           ReadBody(p, readErr, nil)
    \/ \E p \in Procs : Done(p)
    \/ Tick

SpecConc == InitConc /\ [][NextConc]_vars

(* ------------------------------- claims ------------------------------- *)

\* The goroutine's send has returned to its caller.
Returned(p) == g[p].pc = "done"

\* The goroutine's message has been built and handed to sendHTTPRequest.
Handed(p) == g[p].pc \in {"send", "timeout", "default", "do", "read", "done"}

\* Do answered with a response and ReadAll read all of it.
FullyRead(p) ==
    g[p].resp.present /\ g[p].bodyRead /\ g[p].readErr = nil

\* C1: a send whose response was fully read and differs from the success
\* marker returns a non-nil error (no nil return on an unacknowledged
\* delivery).
C1_UnacknowledgedIsError ==
    \A p \in Procs :
        (Returned(p) /\ FullyRead(p) /\ g[p].buf # ok) => g[p].err # nil

\* C2: when Do returns an error the send returns exactly that error, at
\* once, without a response and without reading any body.
C2_TransportErrorUnchanged ==
    \A p \in Procs :
        g[p].doErr # nil =>
            /\ Returned(p)
            /\ g[p].err = g[p].doErr
            /\ ~g[p].resp.present
            /\ ~g[p].bodyRead

C2_Witness ==
    \E p \in Procs :
        /\ Returned(p)
        /\ g[p].method = "SendInfo"
        /\ g[p].doErr = "giving up after retries"
        /\ g[p].err = "giving up after retries"

\* C3: when the request is built, Do answers without error and the body is
\* read in full and equals the success marker, the send returns nil.
C3_AcknowledgedIsNil ==
    \A p \in Procs :
        (Returned(p) /\ g[p].req.built /\ FullyRead(p) /\ g[p].buf = ok)
            => g[p].err = nil

C3_Witness ==
    \E p \in Procs :
        /\ Returned(p)
        /\ g[p].method = "SendSlackNotification"
        /\ FullyRead(p)
        /\ g[p].buf = "ok"
        /\ g[p].err = nil

\* C4: SendError, SendInfo and SendWarning hand over a message with exactly
\* one attachment, colored "danger", "good" and "warning" respectively, whose
\* text is the message argument; the top-level text is empty; the icon is the
\* first option when there is one and the default icon otherwise.
C4_SeverityMessage ==
    \A p \in Procs :
        (Handed(p) /\ g[p].method \in SeverityMethods) =>
            LET m == g[p].slackRequest
            IN /\ Len(m.Attachments) = 1
               /\ g[p].method = "SendError" => m.Attachments[1].Color = "danger"
               /\ g[p].method = "SendInfo" => m.Attachments[1].Color = "good"
               /\ g[p].method = "SendWarning"
                      => m.Attachments[1].Color = "warning"
               /\ m.Attachments[1].Text = g[p].message
               /\ m.Text = ""
               /\ g[p].options # <<>> => m.IconEmoji = Head(g[p].options)
               /\ g[p].options = <<>> => m.IconEmoji = ":hammer_and_wrench"

C4_Witness ==
    \E p \in Procs :
        /\ Returned(p)
        /\ g[p].method = "SendWarning"
        /\ g[p].message = "disk full"
        /\ g[p].options = <<":bell:", ":x:">>
        /\ g[p].slackRequest.IconEmoji = ":bell:"
        /\ g[p].slackRequest.Attachments[1].Color = "warning"

\* C5: a send hands at most one request to Do: exactly one once it has
\* returned with serialization and request construction having succeeded,
\* none when either failed, in which case the failure is what it returns.
C5_AtMostOneRequest ==
    \A p \in Procs :
        /\ g[p].sent <= 1
        /\ Returned(p) =>
               LET m == Marshal(g[p].slackRequest)
                   u == urlParse(sc.WebHookURL)
               IN IF m.err # nil THEN g[p].sent = 0 /\ g[p].err = m.err
                  ELSE IF u # nil THEN g[p].sent = 0 /\ g[p].err = u
                  ELSE g[p].sent = 1

C5_Witness ==
    \E p \in Procs :
        /\ Returned(p)
        /\ g[p].sent = 1
        /\ g[p].doErr # nil

\* C6: the deadline under which Do is invoked equals the client's resolved
\* TimeOut (the 5-second default when none was configured).
C6_DeadlineIsTimeOut ==
    \A p \in Procs :
        g[p].sent > 0 =>
            /\ sc.TimeOut # 0
            /\ g[p].doDeadline = sc.TimeOut

\* C7: over any interleaving of sends on one client its TimeOut field is
\* written at most once in total.
C7_TimeOutWrittenOnce == timeoutWrites <= 1

\* C8: the timestamp of a job message is, in Unix seconds, no earlier than
\* the clock when the call began and no later than the clock when it
\* returned.
C8_TimestampWithinCall ==
    \A p \in Procs :
        (Handed(p) /\ g[p].slackRequest.Attachments # <<>>) =>
            LET ts == ParseInt(g[p].slackRequest.Attachments[1].TS)
            IN /\ isValidNumber(g[p].slackRequest.Attachments[1].TS)
               /\ Unix(g[p].callClock) <= ts
               /\ ts <= Unix(clock)
               /\ Returned(p) => ts <= Unix(g[p].retClock)

\* A job built by the caller in one second and stamped by the send in a
\* later one, the rendering having grown from one digit to two.
C8_Witness ==
    \E p \in Procs :
        /\ Returned(p)
        /\ g[p].method = "SendJobNotification"
        /\ Unix(g[p].jobBuiltAt) = 9
        /\ g[p].slackRequest.Attachments[1].TS = <<"1", "0">>

\* C9: every message handed to sendHTTPRequest carries the client's UserName
\* and Channel; SendSlackNotification's has no attachment and the text and
\* icon of its argument; SendJobNotification's has one attachment with the
\* job's color and details, and the job's text and icon at the top level.
C9_MessageFromArguments ==
    \A p \in Procs :
        Handed(p) =>
            LET m == g[p].slackRequest
            IN /\ m.Username = sc.UserName
               /\ m.Channel = sc.Channel
               /\ g[p].method = "SendSlackNotification" =>
                      /\ m.Attachments = <<>>
                      /\ m.Text = g[p].sr.Text
                      /\ m.IconEmoji = g[p].sr.IconEmoji
               /\ g[p].method = "SendJobNotification" =>
                      /\ Len(m.Attachments) = 1
                      /\ m.Attachments[1].Color = g[p].job.Color
                      /\ m.Attachments[1].Text = g[p].job.Details
                      /\ m.Text = g[p].job.Text
                      /\ m.IconEmoji = g[p].job.IconEmoji

C9_Witness ==
    \E p \in Procs :
        /\ Returned(p)
        /\ sc.UserName = "bot"
        /\ sc.Channel = "#ops"
        /\ g[p].method = "SendJobNotification"
        /\ g[p].job.Details = "disk full"
        /\ g[p].job.Text = ""
        /\ g[p].slackRequest.Attachments[1].Text = "disk full"
        /\ g[p].slackRequest.Username = "bot"

\* C10: whenever Do answered with a response, its body has been closed by
\* the time the send returns.
C10_BodyClosedOnReturn ==
    \A p \in Procs :
        (Returned(p) /\ g[p].resp.present) => g[p].closed

====
